---- MODULE Spec2Model ----
(***************************************************************************)
(* rusty-poker: the 7-card hand classifier (hand_type.rs), the order on    *)
(* HandType (derive(Ord) over Card's rank-only Ord, card.rs) and the       *)
(* Monte-Carlo equity estimator hand_vs_hand (equity.rs); the betting Hand *)
(* of poker.rs (process_action and the methods it calls).                  *)
(***************************************************************************)
EXTENDS Integers, Sequences, FiniteSets, TLC

VARIABLES pc, h1, h2, board_in, num_trials, cards, board, new_cards,
          p1_wins, p2_wins, ties, trial, ht1, ht2, ord, result, swapped,
          poker_hand, accepted

vars == <<pc, h1, h2, board_in, num_trials, cards, board, new_cards,
          p1_wins, p2_wins, ties, trial, ht1, ht2, ord, result, swapped,
          poker_hand, accepted>>

(***************************************************************************)
(* card.rs: Suit, Rank, Card                                               *)
(***************************************************************************)
\* enum Suit: the discriminants used by `suit as usize`
Spades == 0
Clubs == 1
Hearts == 2
Diamonds == 3

all_suits == <<Spades, Clubs, Hearts, Diamonds>>

\* enum Rank: Two = 2 .. Ace = 14
Two == 2
Five == 5
Ace == 14

ranks == <<2, 3, 4, 5, 6, 7, 8, 9, 10, 11, 12, 13, 14>>

suits == <<Spades, Clubs, Hearts, Diamonds>>

\* struct Card { rank, suit }
Card(r, s) == [rank |-> r, suit |-> s]

\* Rank::preceeds: (*self as u32) + 1 == (*other as u32)
preceeds(self, other) == self + 1 = other

\* Ordering values of std::cmp::Ordering
Less == "Less"
Equal == "Equal"
Greater == "Greater"

\* impl Ord for Rank: compares the u32 values
RankCmp(a, b) == IF a < b THEN Less ELSE IF a > b THEN Greater ELSE Equal

\* a Card order that breaks rank ties by suit, as a derived Ord would
CardCmpBySuitToo(a, b) ==
    IF a.rank # b.rank THEN RankCmp(a.rank, b.rank) ELSE RankCmp(a.suit, b.suit)

\* impl Ord for Card: self.rank.cmp(&other.rank), the suit is not looked at
CardCmp(a, b) == RankCmp(a.rank, b.rank)

\* all_cards(): for each suit, for each rank, push Card{suit, rank}
all_cards ==
    [i \in 1..52 |-> Card(ranks[((i - 1) % 13) + 1], suits[((i - 1) \div 13) + 1])]

(***************************************************************************)
(* Option / panic values                                                   *)
(***************************************************************************)
None == [tag |-> "None"]
Panic == [tag |-> "Panic"]

IsNone(x) == x.tag = "None"
IsPanic(x) == x.tag = "Panic"

\* Option::or_else(|| f): f is only looked at when self is None; a panic
\* unwinds through the chain
or_else(x, y) == IF IsNone(x) THEN y ELSE x

\* Option::unwrap: panics on None
unwrap(x) == IF IsNone(x) THEN Panic ELSE x

(***************************************************************************)
(* hand_type.rs: enum HandType.  A value is its variant and its fields in  *)
(* declaration order, every field a sequence of cards (a single Card field *)
(* is a sequence of one).                                                  *)
(***************************************************************************)
HandType(tag, fields) == [tag |-> tag, fields |-> fields]

\* the variants in declaration order: derive(PartialOrd, Ord) orders the
\* variants by their position in the enum
Variants == <<"HighCard", "Pair", "TwoPair", "Trips", "Straight", "Flush",
              "FullHouse", "Quads", "StraightFlush">>

VariantIndex(tag) == CHOOSE i \in 1..9 : Variants[i] = tag

\* a conversion that keeps the last five cards
card_vec_to_card_array_last(cs) ==
    IF Len(cs) >= 5
    THEN [tag |-> "Some", arr |-> SubSeq(cs, Len(cs) - 4, Len(cs))]
    ELSE None

\* util.rs card_vec_to_card_array: the first five cards, None when fewer
card_vec_to_card_array(cs) ==
    IF Len(cs) >= 5 THEN [tag |-> "Some", arr |-> SubSeq(cs, 1, 5)] ELSE None

(***************************************************************************)
(* cards.sort_by(|a, b| b.cmp(a)): a stable sort, descending by rank; cards*)
(* of one rank keep the order they came in.                                *)
(***************************************************************************)
InsertDesc(sorted, c) ==
    LET p == Cardinality({i \in 1..Len(sorted) : CardCmp(c, sorted[i]) # Greater})
    IN SubSeq(sorted, 1, p) \o <<c>> \o SubSeq(sorted, p + 1, Len(sorted))

RECURSIVE SortFrom(_, _, _)
SortFrom(cs, i, acc) ==
    IF Len(acc) = Len(cs) THEN acc
    ELSE SortFrom(cs, i + 1, InsertDesc(acc, cs[i]))

\* hand_type without its sort
sort_by_missing(cs) == cs

sort_by_desc(cs) == SortFrom(cs, 1, <<>>)

(***************************************************************************)
(* group_by_suit, group_by_rank_freq                                       *)
(***************************************************************************)
group_by_suit(cs) ==
    [s \in 0..3 |-> SelectSeq(cs, LAMBDA c : c.suit = s)]

\* first loop of group_by_rank_freq: grouped_by_rank[card.rank].push(card)
grouped_by_rank(cs) ==
    [r \in 0..14 |-> SelectSeq(cs, LAMBDA c : c.rank = r)]

\* the second loop walking the ranks upwards (no rev())
RECURSIVE FreqLoopAscending(_, _, _)
FreqLoopAscending(gbr, r, acc) ==
    IF r < 0 THEN acc
    ELSE IF ~(Len(gbr[r]) < 5) THEN Panic
    ELSE FreqLoopAscending(gbr, r - 1,
                  [acc EXCEPT ![Len(gbr[r])] = <<gbr[r]>> \o @])

\* the second loop with the assertion written as cv.len() < 4
RECURSIVE FreqLoopStrict(_, _, _)
FreqLoopStrict(gbr, r, acc) ==
    IF r < 0 THEN acc
    ELSE IF ~(Len(gbr[r]) < 4) THEN Panic
    ELSE FreqLoopStrict(gbr, r - 1,
                  [acc EXCEPT ![Len(gbr[r])] = Append(@, gbr[r])])

\* second loop: grouped_by_rank.iter().rev(), assert!(cv.len() < 5), push the
\* group into the bucket of its length
RECURSIVE FreqLoop(_, _, _)
FreqLoop(gbr, r, acc) ==
    IF r < 0 THEN acc
    ELSE IF ~(Len(gbr[r]) < 5) THEN Panic
    ELSE FreqLoop(gbr, r - 1,
                  [acc EXCEPT ![Len(gbr[r])] = Append(@, gbr[r])])

\* the returned array, or the assertion's panic
group_by_rank_freq(cs) ==
    LET a == FreqLoop(grouped_by_rank(cs), 14, [f \in 0..4 |-> <<>>])
    IN IF a = Panic THEN Panic ELSE [tag |-> "Ok", arr |-> a]

(***************************************************************************)
(* get_straight                                                            *)
(***************************************************************************)
\* the scan without the skip of a repeated rank
RECURSIVE StraightLoopNoSkip(_, _, _, _)
StraightLoopNoSkip(cs, i, last_rank, straight) ==
    IF i > Len(cs) THEN [found |-> FALSE, last_rank |-> last_rank, straight |-> straight]
    ELSE LET kept == IF ~(cs[i].rank + 1 = last_rank) THEN <<>> ELSE straight
             next == Append(kept, cs[i])
         IN IF Len(next) = 5
            THEN [found |-> TRUE, last_rank |-> cs[i].rank, straight |-> next]
            ELSE StraightLoopNoSkip(cs, i + 1, cs[i].rank, next)

RECURSIVE StraightLoop(_, _, _, _)
StraightLoop(cs, i, last_rank, straight) ==
    IF i > Len(cs) THEN [found |-> FALSE, last_rank |-> last_rank, straight |-> straight]
    ELSE IF cs[i].rank = last_rank THEN StraightLoop(cs, i + 1, last_rank, straight)
    ELSE LET kept == IF ~preceeds(cs[i].rank, last_rank) THEN <<>> ELSE straight
             next == Append(kept, cs[i])
         IN IF Len(next) = 5
            THEN [found |-> TRUE, last_rank |-> cs[i].rank, straight |-> next]
            ELSE StraightLoop(cs, i + 1, cs[i].rank, next)

\* get_straight with the wheel's Ace put in front of the Five
get_straight_ace_first(cs) ==
    IF Len(cs) >= 5
    THEN LET r == StraightLoop(cs, 1, Two, <<>>)
         IN IF r.found
            THEN HandType("Straight", <<card_vec_to_card_array(r.straight).arr>>)
            ELSE IF r.last_rank = Two /\ Len(r.straight) = 4 /\ cs[1].rank = Ace
            THEN HandType("Straight",
                          <<card_vec_to_card_array(<<cs[1]>> \o r.straight).arr>>)
            ELSE None
    ELSE None

\* get_straight without the ace-low test
get_straight_no_wheel(cs) ==
    IF Len(cs) >= 5
    THEN LET r == StraightLoop(cs, 1, Two, <<>>)
         IN IF r.found
            THEN HandType("Straight", <<card_vec_to_card_array(r.straight).arr>>)
            ELSE None
    ELSE None

get_straight(cs) ==
    IF Len(cs) >= 5
    THEN LET r == StraightLoop(cs, 1, Two, <<>>)
         IN IF r.found
            THEN HandType("Straight", <<card_vec_to_card_array(r.straight).arr>>)
            ELSE IF r.last_rank = Two /\ Len(r.straight) = 4 /\ cs[1].rank = Ace
            THEN HandType("Straight",
                          <<card_vec_to_card_array(Append(r.straight, cs[1])).arr>>)
            ELSE None
    ELSE None

(***************************************************************************)
(* get_straight_flush, get_flush                                           *)
(***************************************************************************)
\* a straight flush detector that does not look at the suits
get_straight_flush_any_suit(cs) ==
    LET st == get_straight(cs)
    IN IF st.tag = "Straight" THEN HandType("StraightFlush", st.fields) ELSE None

RECURSIVE StraightFlushLoop(_, _)
StraightFlushLoop(by_suit, k) ==
    IF k > 4 THEN None
    ELSE LET st == get_straight(by_suit[all_suits[k]])
         IN IF st.tag = "Straight" THEN HandType("StraightFlush", st.fields)
            ELSE StraightFlushLoop(by_suit, k + 1)

get_straight_flush(cs) == StraightFlushLoop(group_by_suit(cs), 1)

RECURSIVE FlushLoop(_, _)
FlushLoop(by_suit, k) ==
    IF k > 4 THEN None
    ELSE LET a == card_vec_to_card_array(by_suit[all_suits[k]])
         IN IF a.tag = "Some" THEN HandType("Flush", <<a.arr>>)
            ELSE FlushLoop(by_suit, k + 1)

get_flush(cs) == FlushLoop(group_by_suit(cs), 1)

\* `for card in cards { if <keep>(card) ... }`: the cards of cs, in order,
\* whose rank is not one of the given ranks
OtherRanks(cs, rs) == SelectSeq(cs, LAMBDA c : c.rank \notin rs)

(***************************************************************************)
(* get_quads, get_full_house, get_trips_or_pairs, get_high_card            *)
(***************************************************************************)
\* a quads detector that takes the last card of another rank as kicker
get_quads_low_kicker(cs) ==
    LET grouped == group_by_rank_freq(cs)
        g == grouped.arr
    IN IF IsPanic(grouped) THEN Panic
       ELSE IF Len(g[4]) = 0 THEN None
       ELSE LET quads == g[4][1]
                rest == OtherRanks(cs, {quads[1].rank})
            IN IF Len(rest) = 0 THEN None
               ELSE HandType("Quads", <<quads, <<rest[Len(rest)]>> >>)

get_quads(cs) ==
    LET grouped == group_by_rank_freq(cs)
        g == grouped.arr
    IN IF IsPanic(grouped) THEN Panic
       ELSE IF Len(g[4]) = 0 THEN None
       ELSE IF Len(g[4][1]) # 4 THEN Panic
       ELSE LET quads == g[4][1]
                rest == OtherRanks(cs, {quads[1].rank})
            IN IF Len(rest) = 0 THEN None
               ELSE HandType("Quads", <<quads, <<rest[1]>> >>)

\* a full house detector that takes its pair only from a rank held twice
get_full_house_no_second_trips(cs) ==
    LET grouped == group_by_rank_freq(cs)
        g == grouped.arr
    IN IF IsPanic(grouped) THEN Panic
       ELSE IF Len(g[3]) = 0 \/ Len(g[2]) = 0 THEN None
       ELSE HandType("FullHouse", <<g[3][1], g[2][1]>>)

\* get_full_house filling the pair slot, when there are two trips, from the
\* trips it has already used
get_full_house_trips_twice(cs) ==
    LET grouped == group_by_rank_freq(cs)
        g == grouped.arr
    IN IF IsPanic(grouped) THEN Panic
       ELSE IF Len(g[3]) = 0 THEN None
       ELSE LET trips == g[3][1]
            IN IF Len(g[2]) > 0
               THEN HandType("FullHouse", <<trips, g[2][1]>>)
               ELSE IF Len(g[3]) > 1
               THEN HandType("FullHouse", <<trips, SubSeq(trips, 1, 2)>>)
               ELSE None

get_full_house(cs) ==
    LET grouped == group_by_rank_freq(cs)
        g == grouped.arr
    IN IF IsPanic(grouped) THEN Panic
       ELSE IF Len(g[3]) = 0 THEN None
       ELSE IF Len(g[3][1]) # 3 THEN Panic
       ELSE LET trips == g[3][1]
            IN IF Len(g[2]) > 0
               THEN IF Len(g[2][1]) # 2 THEN Panic
                    ELSE HandType("FullHouse", <<trips, g[2][1]>>)
               ELSE IF Len(g[3]) > 1
               THEN IF Len(g[3][2]) # 3 THEN Panic
                    ELSE HandType("FullHouse", <<trips, SubSeq(g[3][2], 1, 2)>>)
               ELSE None

\* the pairs logic with the two-pair kicker taken from the unpaired cards only
PairsPartUnpairedKicker(cs, pairs) ==
    IF Len(pairs) >= 2
    THEN LET p1 == SubSeq(pairs[1], 1, 2)
             p2 == SubSeq(pairs[2], 1, 2)
             rest == OtherRanks(cs, {pairs[k][1].rank : k \in 1..Len(pairs)})
         IN IF Len(rest) = 0 THEN Panic
            ELSE HandType("TwoPair", <<p1, p2, <<rest[1]>> >>)
    ELSE IF Len(pairs) = 1
    THEN LET p == SubSeq(pairs[1], 1, 2)
             kickers == OtherRanks(cs, {p[1].rank})
         IN IF Len(kickers) < 3 THEN Panic
            ELSE HandType("Pair", <<p, SubSeq(kickers, 1, 3)>>)
    ELSE None

\* the part of get_trips_or_pairs after the trips match (lines 338-369)
PairsPart(cs, pairs) ==
    IF Len(pairs) >= 2
    THEN LET p1 == SubSeq(pairs[1], 1, 2)
             p2 == SubSeq(pairs[2], 1, 2)
             rest == OtherRanks(cs, {p1[1].rank, p2[1].rank})
         IN IF Len(rest) = 0 THEN Panic
            ELSE HandType("TwoPair", <<p1, p2, <<rest[1]>> >>)
    ELSE IF Len(pairs) = 1
    THEN LET p == SubSeq(pairs[1], 1, 2)
             kickers == OtherRanks(cs, {p[1].rank})
         IN IF Len(kickers) < 3 THEN Panic
            ELSE HandType("Pair", <<p, SubSeq(kickers, 1, 3)>>)
    ELSE None

\* the detector with the kickers of Trips taken in ascending order
get_trips_or_pairs_kickers_reversed(cs) ==
    LET grouped == group_by_rank_freq(cs)
        g == grouped.arr
    IN IF IsPanic(grouped) THEN Panic
       ELSE LET kickers == IF Len(g[3]) > 0
                           THEN OtherRanks(cs, {g[3][1][1].rank})
                           ELSE <<>>
            IN IF Len(g[3]) > 0 /\ Len(kickers) >= 2
               THEN HandType("Trips", <<g[3][1], <<kickers[2], kickers[1]>> >>)
               ELSE PairsPart(cs, g[2])

get_trips_or_pairs(cs) ==
    LET grouped == group_by_rank_freq(cs)
        g == grouped.arr
    IN IF IsPanic(grouped) THEN Panic
       ELSE IF Len(g[3]) > 0 /\ Len(g[3][1]) # 3 THEN Panic
       ELSE LET kickers == IF Len(g[3]) > 0
                           THEN OtherRanks(cs, {g[3][1][1].rank})
                           ELSE <<>>
            IN IF Len(g[3]) > 0 /\ Len(kickers) >= 2
               THEN HandType("Trips", <<g[3][1], SubSeq(kickers, 1, 2)>>)
               ELSE PairsPart(cs, g[2])

\* get_high_card as the superseded draft has it
get_high_card_draft(cs) == None

get_high_card(cs) ==
    LET a == unwrap(card_vec_to_card_array(cs))
    IN IF IsPanic(a) THEN Panic ELSE HandType("HighCard", <<a.arr>>)

(***************************************************************************)
(* hand_type: sort a private copy, run the detectors in order              *)
(***************************************************************************)
\* the chain with get_straight tried before get_flush
CascadeStraightFirst(cs) ==
    unwrap(or_else(or_else(or_else(or_else(or_else(or_else(
        get_straight_flush(cs),
        get_quads(cs)),
        get_full_house(cs)),
        get_straight(cs)),
        get_flush(cs)),
        get_trips_or_pairs(cs)),
        get_high_card(cs)))

\* the or_else chain over the sorted cards
Cascade(cs) ==
    unwrap(or_else(or_else(or_else(or_else(or_else(or_else(
        get_straight_flush(cs),
        get_quads(cs)),
        get_full_house(cs)),
        get_flush(cs)),
        get_straight(cs)),
        get_trips_or_pairs(cs)),
        get_high_card(cs)))

hand_type(hand, brd) == Cascade(sort_by_desc(hand \o brd))

(***************************************************************************)
(* Reading a HandType                                                      *)
(***************************************************************************)
RECURSIVE Flatten(_)
Flatten(fields) ==
    IF fields = <<>> THEN <<>> ELSE Head(fields) \o Flatten(Tail(fields))

\* the cards a HandType carries, in the order its fields list them
Payload(ht) == Flatten(ht.fields)

RanksOf(cs) == [i \in 1..Len(cs) |-> cs[i].rank]

PayloadRanks(ht) == RanksOf(Payload(ht))

CardSet(cs) == {cs[i] : i \in 1..Len(cs)}

(***************************************************************************)
(* Standard poker ranking of five cards, stated without the detectors.     *)
(* Five ranks r1 >= r2 >= r3 >= r4 >= r5 and "all of one suit" give the    *)
(* category and the tie-break ranks (the ranks ordered by multiplicity,    *)
(* then by rank; the wheel is 5-4-3-2-A, Five-high).  A hand is scored as  *)
(* the number with digits <category, tie-break ranks> in base 16, so that  *)
(* a better hand has a larger score.                                       *)
(***************************************************************************)
Score(cat, a, b, c, d, e) ==
    cat * 1048576 + a * 65536 + b * 4096 + c * 256 + d * 16 + e

Rank5(r1, r2, r3, r4, r5, isFlush) ==
    LET isWheel == r1 = 14 /\ r2 = 5 /\ r3 = 4 /\ r4 = 3 /\ r5 = 2
        isRun == r1 = r2 + 1 /\ r2 = r3 + 1 /\ r3 = r4 + 1 /\ r4 = r5 + 1
    IN IF isFlush /\ isWheel THEN Score(9, 5, 4, 3, 2, 14)
       ELSE IF isFlush /\ isRun THEN Score(9, r1, r2, r3, r4, r5)
       ELSE IF r1 = r4 THEN Score(8, r1, r1, r1, r1, r5)
       ELSE IF r2 = r5 THEN Score(8, r2, r2, r2, r2, r1)
       ELSE IF r1 = r3 /\ r4 = r5 THEN Score(7, r1, r1, r1, r4, r4)
       ELSE IF r1 = r2 /\ r3 = r5 THEN Score(7, r3, r3, r3, r1, r1)
       ELSE IF isFlush THEN Score(6, r1, r2, r3, r4, r5)
       ELSE IF isWheel THEN Score(5, 5, 4, 3, 2, 14)
       ELSE IF isRun THEN Score(5, r1, r2, r3, r4, r5)
       ELSE IF r1 = r3 THEN Score(4, r1, r1, r1, r4, r5)
       ELSE IF r2 = r4 THEN Score(4, r2, r2, r2, r1, r5)
       ELSE IF r3 = r5 THEN Score(4, r3, r3, r3, r1, r2)
       ELSE IF r1 = r2 /\ r3 = r4 THEN Score(3, r1, r1, r3, r3, r5)
       ELSE IF r1 = r2 /\ r4 = r5 THEN Score(3, r1, r1, r4, r4, r3)
       ELSE IF r2 = r3 /\ r4 = r5 THEN Score(3, r2, r2, r4, r4, r1)
       ELSE IF r1 = r2 THEN Score(2, r1, r1, r3, r4, r5)
       ELSE IF r2 = r3 THEN Score(2, r2, r2, r1, r4, r5)
       ELSE IF r3 = r4 THEN Score(2, r3, r3, r1, r2, r5)
       ELSE IF r4 = r5 THEN Score(2, r4, r4, r1, r2, r3)
       ELSE Score(1, r1, r2, r3, r4, r5)

\* the 21 ways to pick five of seven positions
Pick5 ==
    {t \in (1..3) \X (2..4) \X (3..5) \X (4..6) \X (5..7) :
        \A i \in 1..4 : t[i] < t[i + 1]}

\* a card as one number, so that cards sort by rank
Code(c) == c.rank * 4 + c.suit

RECURSIVE SortNatDesc(_)
SortNatDesc(S) ==
    IF S = {} THEN <<>>
    ELSE LET m == CHOOSE x \in S : \A y \in S : y <= x
         IN <<m>> \o SortNatDesc(S \ {m})

\* the scores of the 21 five-card subsets of seven distinct cards
Scores5(seven) ==
    LET k == SortNatDesc({Code(seven[i]) : i \in 1..7})
        r == [i \in 1..7 |-> k[i] \div 4]
        s == [i \in 1..7 |-> k[i] % 4]
        sc(t) == Rank5(r[t[1]], r[t[2]], r[t[3]], r[t[4]], r[t[5]],
                       s[t[1]] = s[t[2]] /\ s[t[2]] = s[t[3]]
                       /\ s[t[3]] = s[t[4]] /\ s[t[4]] = s[t[5]])
    IN {sc(t) : t \in Pick5}

\* the score of the best five of seven distinct cards
Best5(seven) ==
    LET all == Scores5(seven)
    IN CHOOSE b \in all : \A x \in all : x <= b

\* the categories (1 = HighCard .. 9 = StraightFlush) found among the 21 subsets
Cats5(seven) == {x \div 1048576 : x \in Scores5(seven)}

\* the five highest ranks of seven cards, highest first
Top5Ranks(seven) ==
    LET k == SortNatDesc({Code(seven[i]) : i \in 1..7})
    IN [i \in 1..5 |-> k[i] \div 4]

\* seven cards put in one fixed order: by rank, then by suit, highest first
CanonOrder(seven) ==
    LET k == SortNatDesc({Code(seven[i]) : i \in 1..7})
    IN [i \in 1..7 |-> Card(k[i] \div 4, k[i] % 4)]

\* the score of a HandType: its category and its payload's ranks
ScoreOf(ht) ==
    LET p == PayloadRanks(ht)
    IN Score(VariantIndex(ht.tag), p[1], p[2], p[3], p[4], p[5])

(***************************************************************************)
(* Classifier runs: seven distinct cards are dealt as 2 hole cards and 5   *)
(* board cards, then hand_type classifies them.                            *)
(***************************************************************************)
Unused == "unused"

\* the cards the classifier runs deal from, and how many of them are used
HTDeckList ==
    <<Card(14, Spades), Card(6, Spades), Card(5, Spades), Card(4, Spades),
      Card(3, Spades), Card(2, Spades), Card(2, Clubs), Card(2, Hearts),
      Card(2, Diamonds), Card(3, Clubs), Card(3, Hearts), Card(4, Hearts),
      Card(11, Diamonds), Card(9, Clubs), Card(5, Clubs), Card(6, Hearts),
      Card(13, Diamonds), Card(14, Clubs)>>

HTDeckSize == 14

\* the cards of cs at the positions I, in the order of cs
RECURSIVE PickAt(_, _, _)
PickAt(cs, I, i) ==
    IF i > Len(cs) THEN <<>>
    ELSE (IF i \in I THEN <<cs[i]>> ELSE <<>>) \o PickAt(cs, I, i + 1)

\* every 7 of the deck's cards, dealt in deck order
CanonDeals ==
    {PickAt(HTDeckList, I, 1)
        : I \in {J \in SUBSET (1..HTDeckSize) : Cardinality(J) = 7}}

\* hands with tied ranks, dealt in every order
PermHandList ==
    << <<Card(3, Spades), Card(3, Clubs), Card(3, Hearts), Card(2, Spades),
         Card(2, Clubs), Card(2, Hearts), Card(14, Spades)>>,
       <<Card(14, Spades), Card(14, Clubs), Card(5, Diamonds), Card(4, Hearts),
         Card(3, Clubs), Card(2, Diamonds), Card(2, Hearts)>>,
       <<Card(6, Spades), Card(6, Hearts), Card(5, Spades), Card(5, Clubs),
         Card(4, Spades), Card(4, Hearts), Card(2, Diamonds)>>,
       <<Card(2, Spades), Card(2, Clubs), Card(2, Hearts), Card(2, Diamonds),
         Card(13, Spades), Card(13, Clubs), Card(3, Diamonds)>>,
       <<Card(9, Clubs), Card(9, Hearts), Card(7, Clubs), Card(6, Clubs),
         Card(5, Clubs), Card(5, Diamonds), Card(2, Clubs)>> >>

NumPermHands == 2

PermDeals ==
    {[i \in 1..7 |-> PermHandList[k][p[i]]]
        : k \in 1..NumPermHands, p \in Permutations(1..7)}

HTDeals == CanonDeals \cup PermDeals

InitHT ==
    /\ pc = "dealt"
    /\ poker_hand = Unused /\ accepted = 0
    /\ \E d \in HTDeals : h1 = SubSeq(d, 1, 2) /\ board = SubSeq(d, 3, 7)
    /\ ht1 = None
    /\ h2 = Unused /\ board_in = Unused /\ num_trials = 0 /\ cards = Unused
    /\ new_cards = Unused /\ p1_wins = 0 /\ p2_wins = 0 /\ ties = 0
    /\ trial = 0 /\ ht2 = None /\ ord = Unused /\ result = None
    /\ swapped = Unused

\* one call of hand_type(hole, board)
Classify ==
    /\ pc = "dealt"
    /\ ht1' = hand_type(h1, board)
    /\ pc' = IF IsPanic(ht1') THEN "panicked" ELSE "classified"
    /\ UNCHANGED <<poker_hand, accepted, h1, h2, board_in, num_trials, cards, board, new_cards,
                   p1_wins, p2_wins, ties, trial, ht2, ord, result, swapped>>

NextHT == Classify

SpecHT == InitHT /\ [][NextHT]_vars

\* the seven cards of the run, as dealt and as hand_type sorts them
Dealt == h1 \o board
Sorted == sort_by_desc(Dealt)

(***************************************************************************)
(* derive(PartialOrd, Ord) on HandType: the variants by declaration order, *)
(* then the fields in order, an array lexicographically by Card's Ord.     *)
(***************************************************************************)
\* the array order over a Card order that also looks at the suit
RECURSIVE ArrayCmpBySuitToo(_, _, _)
ArrayCmpBySuitToo(a, b, i) ==
    IF i > Len(a) \/ i > Len(b) THEN RankCmp(Len(a), Len(b))
    ELSE IF CardCmpBySuitToo(a[i], b[i]) # Equal THEN CardCmpBySuitToo(a[i], b[i])
    ELSE ArrayCmpBySuitToo(a, b, i + 1)

RECURSIVE ArrayCmp(_, _, _)
ArrayCmp(a, b, i) ==
    IF i > Len(a) \/ i > Len(b) THEN RankCmp(Len(a), Len(b))
    ELSE IF CardCmp(a[i], b[i]) # Equal THEN CardCmp(a[i], b[i])
    ELSE ArrayCmp(a, b, i + 1)

RECURSIVE FieldsCmp(_, _, _)
FieldsCmp(fa, fb, i) ==
    IF i > Len(fa) THEN Equal
    ELSE IF ArrayCmp(fa[i], fb[i], 1) # Equal THEN ArrayCmp(fa[i], fb[i], 1)
    ELSE FieldsCmp(fa, fb, i + 1)

HandTypeCmp(x, y) ==
    IF VariantIndex(x.tag) # VariantIndex(y.tag)
    THEN RankCmp(VariantIndex(x.tag), VariantIndex(y.tag))
    ELSE FieldsCmp(x.fields, y.fields, 1)

(***************************************************************************)
(* Comparison runs: two HandType values, as hand_type returns them for a   *)
(* list of hands, are compared.                                            *)
(***************************************************************************)
Cs(t) == [i \in 1..Len(t) |-> Card(t[i][1], t[i][2])]

OrdHandList ==
    << Cs(<< <<14, 0>>, <<11, 3>>, <<9, 1>>, <<6, 0>>, <<5, 0>>, <<3, 1>>, <<2, 2>> >>),
       Cs(<< <<14, 2>>, <<11, 1>>, <<9, 3>>, <<6, 3>>, <<5, 1>>, <<3, 0>>, <<2, 3>> >>),
       Cs(<< <<2, 0>>, <<2, 1>>, <<14, 3>>, <<13, 2>>, <<12, 0>>, <<9, 3>>, <<7, 1>> >>),
       Cs(<< <<14, 0>>, <<14, 2>>, <<9, 3>>, <<7, 1>>, <<5, 2>>, <<4, 3>>, <<2, 1>> >>),
       Cs(<< <<3, 0>>, <<3, 1>>, <<2, 0>>, <<2, 1>>, <<7, 3>>, <<5, 2>>, <<4, 3>> >>),
       Cs(<< <<2, 0>>, <<2, 1>>, <<2, 2>>, <<14, 3>>, <<13, 2>>, <<9, 3>>, <<7, 1>> >>),
       Cs(<< <<14, 1>>, <<2, 3>>, <<3, 0>>, <<4, 2>>, <<5, 1>>, <<9, 3>>, <<13, 0>> >>),
       Cs(<< <<14, 3>>, <<2, 1>>, <<3, 2>>, <<4, 0>>, <<5, 3>>, <<9, 1>>, <<13, 2>> >>),
       Cs(<< <<6, 1>>, <<2, 3>>, <<3, 0>>, <<4, 2>>, <<5, 1>>, <<9, 3>>, <<13, 0>> >>),
       Cs(<< <<7, 1>>, <<5, 1>>, <<4, 1>>, <<3, 1>>, <<2, 1>>, <<14, 0>>, <<14, 3>> >>),
       Cs(<< <<2, 0>>, <<2, 1>>, <<2, 2>>, <<3, 0>>, <<3, 1>>, <<14, 3>>, <<13, 2>> >>),
       Cs(<< <<2, 0>>, <<2, 1>>, <<2, 2>>, <<2, 3>>, <<3, 0>>, <<4, 1>>, <<5, 2>> >>),
       Cs(<< <<14, 1>>, <<2, 1>>, <<3, 1>>, <<4, 1>>, <<5, 1>>, <<13, 3>>, <<14, 0>> >>),
       Cs(<< <<14, 1>>, <<13, 0>>, <<12, 1>>, <<11, 0>>, <<10, 3>>, <<9, 0>>, <<8, 2>> >>),
       Cs(<< <<14, 0>>, <<13, 0>>, <<12, 0>>, <<11, 0>>, <<10, 0>>, <<9, 3>>, <<8, 2>> >>),
       Cs(<< <<3, 0>>, <<3, 2>>, <<3, 3>>, <<14, 1>>, <<13, 1>>, <<9, 2>>, <<7, 0>> >>),
       Cs(<< <<14, 2>>, <<14, 3>>, <<13, 0>>, <<13, 1>>, <<9, 0>>, <<5, 3>>, <<4, 2>> >>) >>

NumOrdHands == 15

OrdPool ==
    {hand_type(SubSeq(OrdHandList[k], 1, 2), SubSeq(OrdHandList[k], 3, 7))
        : k \in 1..NumOrdHands}

InitOrd ==
    /\ pc = "values"
    /\ poker_hand = Unused /\ accepted = 0
    /\ ht1 \in OrdPool /\ ht2 \in OrdPool
    /\ ord = Unused
    /\ h1 = Unused /\ h2 = Unused /\ board_in = Unused /\ num_trials = 0
    /\ cards = Unused /\ board = Unused /\ new_cards = Unused
    /\ p1_wins = 0 /\ p2_wins = 0 /\ ties = 0 /\ trial = 0 /\ result = None
    /\ swapped = Unused

\* one call of a.cmp(&b)
CompareValues ==
    /\ pc = "values"
    /\ ord' = HandTypeCmp(ht1, ht2)
    /\ pc' = "compared"
    /\ UNCHANGED <<poker_hand, accepted, h1, h2, board_in, num_trials, cards, board, new_cards,
                   p1_wins, p2_wins, ties, trial, ht1, ht2, result, swapped>>

NextOrd == CompareValues

SpecOrd == InitOrd /\ [][NextOrd]_vars

(***************************************************************************)
(* equity.rs: hand_vs_hand(h1, h2, board, num_trials)                      *)
(***************************************************************************)
Ok(v) == [tag |-> "Ok", vec |-> v]

\* a remove that leaves the deck alone when the card is not in it
RemoveCardIfPresent(cs, card) ==
    LET hit == {i \in 1..Len(cs) : cs[i] = card}
    IN IF hit = {} THEN Ok(cs)
       ELSE LET k == CHOOSE i \in hit : \A j \in hit : i <= j
            IN Ok(SubSeq(cs, 1, k - 1) \o SubSeq(cs, k + 1, Len(cs)))

\* v.remove(v.iter().position(|x| *x == card).unwrap()): the first equal
\* card is taken out; the unwrap panics when there is none
RemoveCard(cs, card) ==
    LET hit == {i \in 1..Len(cs) : cs[i] = card}
    IN IF hit = {} THEN Panic
       ELSE LET k == CHOOSE i \in hit : \A j \in hit : i <= j
            IN Ok(SubSeq(cs, 1, k - 1) \o SubSeq(cs, k + 1, Len(cs)))

\* `for card in dead { v.remove(...) }`
RECURSIVE RemoveEach(_, _, _)
RemoveEach(v, dead, i) ==
    IF IsPanic(v) \/ i > Len(dead) THEN v
    ELSE RemoveEach(RemoveCard(v.vec, dead[i]), dead, i + 1)

\* a deck built without taking the board's cards out
RemainingDeckHolesOnly(a, b, brd) == RemoveEach(Ok(all_cards), a \o b, 1)

\* lines 17-27: all_cards() minus the hole cards, then minus the board
RemainingDeck(a, b, brd) ==
    RemoveEach(RemoveEach(Ok(all_cards), a \o b, 1), brd, 1)

\* a restore that takes only the last card back
RestoreBoardPopOnce(brd, drawn) ==
    IF Len(drawn) = 0 THEN Ok(brd) ELSE Ok(SubSeq(brd, 1, Len(brd) - 1))

\* lines 44-46: every drawn card is taken out of the board again
RestoreBoard(brd, drawn) == RemoveEach(Ok(brd), drawn, 1)

\* the counters with ties counted for player 1
TallyTiesToP1(o, p1, p2, t) ==
    IF o = Less THEN <<p1, p2 + 1, t>> ELSE <<p1 + 1, p2, t>>

\* the counters with a loss of player 1 counted as a tie
TallyLessAsTie(o, p1, p2, t) ==
    IF o = Greater THEN <<p1 + 1, p2, t>> ELSE <<p1, p2, t + 1>>

\* lines 39-43: the match on the Ordering
Tally(o, p1, p2, t) ==
    IF o = Less THEN <<p1, p2 + 1, t>>
    ELSE IF o = Equal THEN <<p1, p2, t + 1>>
    ELSE <<p1 + 1, p2, t>>

\* `a as f32 / b as f32`: the quotient kept as a fraction; 0.0 / 0.0 is NaN
F32Div(a, b) ==
    IF b = 0 THEN (IF a = 0 THEN "NaN" ELSE "inf") ELSE [num |-> a, den |-> b]

HandEquity(w, d) == [pwin |-> w, pdraw |-> d]

\* the inputs of the runs
AS == Card(14, Spades)
AC == Card(14, Clubs)
KD == Card(13, Diamonds)
KH == Card(13, Hearts)

Holes == { <<AS, AC>>, <<KD, KH>>, <<KD, KD>> }

Boards ==
    { <<>>,
      <<Card(5, Diamonds), Card(6, Clubs), Card(7, Clubs)>>,
      <<Card(5, Diamonds), Card(6, Clubs), Card(7, Clubs), Card(9, Hearts),
        Card(2, Diamonds)>>,
      <<KD, Card(6, Clubs), Card(7, Clubs)>>,
      <<Card(5, Diamonds), Card(5, Diamonds), Card(7, Clubs)>> }

MaxTrials == 2

\* the cards the sampled draws are taken from (those of them still in the
\* deck), and how many of them are used
UniverseList ==
    <<AS, KD, Card(5, Diamonds), Card(6, Clubs), Card(7, Clubs),
      Card(8, Hearts), Card(9, Hearts), Card(13, Spades), Card(14, Hearts),
      Card(2, Spades)>>

UniverseSize == 8

Universe == {UniverseList[i] : i \in 1..UniverseSize}

\* choose_multiple(&mut rng, k): k distinct cards of the deck, in any order
Draws(deck, k) ==
    LET live == {deck[i] : i \in 1..Len(deck)} \cap Universe
    IN {d \in [1..k -> live] : \A i, j \in 1..k : i # j => d[i] # d[j]}

Init ==
    /\ pc = "start"
    /\ poker_hand = Unused /\ accepted = 0
    /\ h1 \in Holes /\ h2 \in Holes
    /\ board_in \in Boards
    /\ num_trials \in 0..MaxTrials
    /\ cards = <<>> /\ board = <<>> /\ new_cards = <<>>
    /\ p1_wins = 0 /\ p2_wins = 0 /\ ties = 0 /\ trial = 0
    /\ ht1 = None /\ ht2 = None /\ ord = Unused /\ result = None
    /\ swapped = Unused

\* lines 17-32: the deck without the dead cards, the board's clone, the counters
Build ==
    /\ pc = "start"
    /\ LET d == RemainingDeck(h1, h2, board_in)
       IN IF IsPanic(d)
          THEN pc' = "panicked" /\ UNCHANGED <<cards, board>>
          ELSE pc' = "loop" /\ cards' = d.vec /\ board' = board_in
    /\ UNCHANGED <<poker_hand, accepted, h1, h2, board_in, num_trials, new_cards, p1_wins, p2_wins,
                   ties, trial, ht1, ht2, ord, result, swapped>>

\* lines 35-38: the draw, pushed onto the board
Sample ==
    /\ pc = "loop" /\ trial < num_trials
    /\ Len(board) <= 5
    /\ \E d \in Draws(cards, 5 - Len(board)) :
          /\ new_cards' = d
          /\ board' = board \o d
    /\ pc' = "compare"
    /\ UNCHANGED <<poker_hand, accepted, h1, h2, board_in, num_trials, cards, p1_wins, p2_wins, ties,
                   trial, ht1, ht2, ord, result, swapped>>

\* lines 39-43: both hands classified, compared and counted
Compare ==
    /\ pc = "compare"
    /\ ht1' = hand_type(h1, board)
    /\ ht2' = hand_type(h2, board)
    /\ IF IsPanic(ht1') \/ IsPanic(ht2')
       THEN pc' = "panicked" /\ UNCHANGED <<ord, p1_wins, p2_wins, ties>>
       ELSE /\ pc' = "restore"
            /\ ord' = HandTypeCmp(ht1', ht2')
            /\ p1_wins' = Tally(ord', p1_wins, p2_wins, ties)[1]
            /\ p2_wins' = Tally(ord', p1_wins, p2_wins, ties)[2]
            /\ ties' = Tally(ord', p1_wins, p2_wins, ties)[3]
    /\ UNCHANGED <<poker_hand, accepted, h1, h2, board_in, num_trials, cards, board, new_cards, trial,
                   result, swapped>>

\* lines 44-47: the drawn cards taken out of the board, the iteration ends
Restore ==
    /\ pc = "restore"
    /\ LET b == RestoreBoard(board, new_cards)
       IN IF IsPanic(b)
          THEN pc' = "panicked" /\ UNCHANGED <<board, new_cards, trial, ht1, ht2, ord>>
          ELSE /\ pc' = "loop"
               /\ board' = b.vec
               /\ new_cards' = <<>>
               /\ trial' = trial + 1
               /\ ht1' = None /\ ht2' = None /\ ord' = Unused
    /\ UNCHANGED <<poker_hand, accepted, h1, h2, board_in, num_trials, cards, p1_wins, p2_wins, ties,
                   result, swapped>>

\* a return that does not wait for the loop to be over
ReturnEarly ==
    /\ pc = "loop"
    /\ result' = <<HandEquity(F32Div(p1_wins, num_trials), F32Div(ties, num_trials)),
                   HandEquity(F32Div(p2_wins, num_trials), F32Div(ties, num_trials))>>
    /\ pc' = "done"
    /\ UNCHANGED <<poker_hand, accepted, h1, h2, board_in, num_trials, cards, board, new_cards,
                   p1_wins, p2_wins, ties, trial, ht1, ht2, ord, swapped>>

\* lines 49-50: the loop is over, the two HandEquity values are returned
Return ==
    /\ pc = "loop" /\ ~(trial < num_trials)
    /\ result' = <<HandEquity(F32Div(p1_wins, num_trials), F32Div(ties, num_trials)),
                   HandEquity(F32Div(p2_wins, num_trials), F32Div(ties, num_trials))>>
    /\ pc' = "done"
    /\ UNCHANGED <<poker_hand, accepted, h1, h2, board_in, num_trials, cards, board, new_cards,
                   p1_wins, p2_wins, ties, trial, ht1, ht2, ord, swapped>>

Next == Build \/ Sample \/ Compare \/ Restore \/ Return

Spec == Init /\ [][Next]_vars

(***************************************************************************)
(* Claims about the classifier (checked under SpecHT)                      *)
(***************************************************************************)
\* C1: for 7 distinct cards dealt as 2 hole and 5 board cards, hand_type
\* returns the best 5-card hand: its category and the ranks of its payload
\* are those of the maximum, under the standard ranking, over the 21
\* five-card subsets of the 7 cards.
C1_BestFiveOfSeven ==
    pc # "dealt" =>
        /\ pc = "classified"
        /\ Len(Payload(ht1)) = 5
        /\ ScoreOf(ht1) = Best5(Dealt)

\* C1's case: a wheel found among seven cards, where the best five are not
\* the five highest
C1_Witness ==
    /\ pc = "classified"
    /\ ht1.tag = "Straight"
    /\ PayloadRanks(ht1) = <<5, 4, 3, 2, 14>>
    /\ Top5Ranks(Dealt) # <<14, 5, 4, 3, 2>>

\* the detectors' results on the sorted cards, in the order hand_type tries them
Detectors(cs) ==
    <<get_straight_flush(cs), get_quads(cs), get_full_house(cs), get_flush(cs),
      get_straight(cs), get_trips_or_pairs(cs), get_high_card(cs)>>

FirstMatch(ds) ==
    LET hit == {i \in 1..Len(ds) : ~IsNone(ds[i])}
    IN IF hit = {} THEN None
       ELSE ds[CHOOSE i \in hit : \A j \in hit : i <= j]

NoStrongerMatch == \A i \in 1..6 : IsNone(Detectors(Sorted)[i])

\* C2: classification is total: for 7 distinct cards hand_type returns one
\* HandType and never panics; when no stronger detector matches the result
\* is HighCard carrying the 5 highest-ranked of the 7 cards, highest first.
C2_TotalNeverPanics ==
    pc # "dealt" =>
        /\ pc = "classified"
        /\ \E i \in 1..9 : ht1.tag = Variants[i]
        /\ Len(Payload(ht1)) = 5
        /\ NoStrongerMatch =>
              /\ ht1.tag = "HighCard"
              /\ PayloadRanks(ht1) = Top5Ranks(Dealt)
              /\ CardSet(Payload(ht1)) \subseteq CardSet(Dealt)

C2_Witness == pc = "classified" /\ NoStrongerMatch /\ ht1.tag = "HighCard"

\* the variants each of the seven detectors can return
DetectorTags ==
    << {"StraightFlush"}, {"Quads"}, {"FullHouse"}, {"Flush"}, {"Straight"},
       {"Trips", "TwoPair", "Pair"}, {"HighCard"} >>

\* C3: hand_type returns the result of the first detector that matches in
\* the order StraightFlush, Quads, FullHouse, Flush, Straight,
\* Trips/TwoPair/Pair, HighCard; 7 cards that hold a straight and five cards
\* of one suit but no straight flush are classified as Flush.
C3_FirstMatchInOrder ==
    pc # "dealt" =>
        /\ ht1 = FirstMatch(Detectors(Sorted))
        /\ \A i \in 1..7 :
              ht1.tag \in DetectorTags[i] =>
                  \A j \in 1..(i - 1) : IsNone(Detectors(Sorted)[j])
        /\ (5 \in Cats5(Dealt) /\ 6 \in Cats5(Dealt) /\ 9 \notin Cats5(Dealt))
              => ht1.tag = "Flush"

C3_Witness ==
    /\ pc = "classified"
    /\ 5 \in Cats5(Dealt) /\ 6 \in Cats5(Dealt) /\ 9 \notin Cats5(Dealt)
    /\ ht1.tag = "Flush"

\* what hand_type returns for the same seven cards dealt in the fixed order
CanonResult ==
    hand_type(SubSeq(CanonOrder(Dealt), 1, 2), SubSeq(CanonOrder(Dealt), 3, 7))

\* C5 as stated: every order and hole/board assignment of the same 7 cards
\* makes hand_type return an equal HandType value.
C5_SameValueInEveryOrder ==
    pc = "classified" => ht1 = CanonResult

\* C5 as amended: every order and hole/board assignment of the same 7 cards
\* makes hand_type return the same category and the same sequence of payload
\* ranks (the payload's cards may differ in suit).
C5_SameCategoryAndRanksInEveryOrder ==
    pc # "dealt" =>
        /\ pc = "classified"
        /\ ht1.tag = CanonResult.tag
        /\ PayloadRanks(ht1) = PayloadRanks(CanonResult)

\* C5's case: the same cards dealt in another order, with a payload of other suits
C5_Witness ==
    /\ pc = "classified"
    /\ Dealt # CanonOrder(Dealt)
    /\ ht1 # CanonResult
    /\ CardSet(Payload(ht1)) # CardSet(Payload(CanonResult))

(***************************************************************************)
(* Claims about the order on HandType (checked under SpecOrd)              *)
(***************************************************************************)
\* the strength of a category as poker ranks it
Strength(tag) ==
    CASE tag = "StraightFlush" -> 9
      [] tag = "Quads" -> 8
      [] tag = "FullHouse" -> 7
      [] tag = "Flush" -> 6
      [] tag = "Straight" -> 5
      [] tag = "Trips" -> 4
      [] tag = "TwoPair" -> 3
      [] tag = "Pair" -> 2
      [] tag = "HighCard" -> 1

\* lexicographic comparison of two rank sequences of one length
RECURSIVE LexRanks(_, _, _)
LexRanks(a, b, i) ==
    IF i > Len(a) THEN Equal
    ELSE IF a[i] < b[i] THEN Less
    ELSE IF a[i] > b[i] THEN Greater
    ELSE LexRanks(a, b, i + 1)

\* the order the claim describes: category first, then the payload ranks
ClaimedOrder(x, y) ==
    IF Strength(x.tag) < Strength(y.tag) THEN Less
    ELSE IF Strength(x.tag) > Strength(y.tag) THEN Greater
    ELSE LexRanks(PayloadRanks(x), PayloadRanks(y), 1)

Reverse(o) == IF o = Less THEN Greater ELSE IF o = Greater THEN Less ELSE Equal

\* C4: the order on HandType is total and compares first by category,
\* StraightFlush > Quads > FullHouse > Flush > Straight > Trips > TwoPair >
\* Pair > HighCard, whatever the payloads, then the payload cards
\* lexicographically by rank only: equal rank sequences compare Equal even
\* when suits differ.
C4_CategoryThenRanks ==
    pc = "compared" =>
        /\ ord = ClaimedOrder(ht1, ht2)
        /\ HandTypeCmp(ht2, ht1) = Reverse(ord)
        /\ HandTypeCmp(ht1, ht1) = Equal
        /\ \A z \in OrdPool :
              (ord # Greater /\ HandTypeCmp(ht2, z) # Greater)
                  => HandTypeCmp(ht1, z) # Greater
        /\ (ht1.tag = ht2.tag /\ PayloadRanks(ht1) = PayloadRanks(ht2))
              => ord = Equal

\* C4's cases: equal ranks in other suits compare Equal; a weaker category
\* with higher ranks is Less
C4_Witness ==
    /\ pc = "compared"
    /\ ht1 # ht2 /\ ht1.tag = ht2.tag /\ ord = Equal

(***************************************************************************)
(* Claims about hand_vs_hand (checked under Spec)                          *)
(***************************************************************************)
Distinct(cs) == \A i, j \in 1..Len(cs) : i # j => cs[i] # cs[j]

DeadCards == CardSet(h1) \cup CardSet(h2) \cup CardSet(board_in)

\* C6: in every trial the cards drawn to complete the board are pairwise
\* distinct and none of them is a card of hole1, hole2 or the supplied
\* board, so the completed board holds exactly 5 distinct cards disjoint
\* from both hole pairs.
C6_DeadCardsNeverDrawn ==
    pc \in {"compare", "restore"} =>
        /\ Len(new_cards) = 5 - Len(board_in)
        /\ Distinct(new_cards)
        /\ CardSet(new_cards) \cap DeadCards = {}
        /\ Len(board) = 5
        /\ Distinct(board)
        /\ CardSet(board) \cap (CardSet(h1) \cup CardSet(h2)) = {}

\* C6's case: a trial that drew several cards onto a supplied flop
C6_Witness ==
    /\ pc = "compare"
    /\ Len(board_in) = 3
    /\ Len(new_cards) = 2
    /\ trial = 1

\* the three counters read together
Counters == <<p1_wins, p2_wins, ties>>

\* what a compare step does to the counters: exactly one grows by 1, the one
\* the comparison of the two hands on the completed board names
OneCounterStep ==
    (pc = "compare" /\ pc' = "restore") =>
        LET o == HandTypeCmp(hand_type(h1, board), hand_type(h2, board))
        IN /\ o = Greater => Counters' = <<p1_wins + 1, p2_wins, ties>>
           /\ o = Less => Counters' = <<p1_wins, p2_wins + 1, ties>>
           /\ o = Equal => Counters' = <<p1_wins, p2_wins, ties + 1>>

\* the counters add up to the trials completed, and the returned fractions
\* to one
TallySum ==
    /\ pc \in {"start", "loop", "compare", "panicked"} => p1_wins + p2_wins + ties = trial
    /\ pc = "restore" => p1_wins + p2_wins + ties = trial + 1
    /\ (pc = "done" /\ num_trials > 0) =>
          /\ p1_wins + p2_wins + ties = num_trials
          /\ result[1].pwin.num + result[2].pwin.num + result[1].pdraw.num
                = result[1].pwin.den
          /\ result[1].pwin.den = num_trials
          /\ result[1].pdraw = result[2].pdraw

\* C7: every trial increments exactly one of p1_wins, p2_wins, ties by 1
\* (p1_wins on Greater, p2_wins on Less, ties on Equal), so after k trials
\* the three add up to k and the reported fractions add up to 1.
C7_OneCounterPerTrial ==
    [][OneCounterStep /\ (pc # "compare" => Counters' = Counters) /\ TallySum']_vars

\* C7's case: a finished run of two trials in which a tie and a win were counted
C7_Witness ==
    /\ pc = "done"
    /\ num_trials = 2
    /\ ties = 1
    /\ p2_wins = 1

\* the deck the run should sample from: the 52 cards without the dead ones
ExpectedDeck == SelectSeq(all_cards, LAMBDA c : c \notin DeadCards)

\* C8: a trial does not change the shared sampling state: at the start of
\* every trial the remaining deck is the 52 cards minus hole1, hole2 and the
\* supplied board, and the board is the supplied board in its order.
C8_TrialLeavesDeckAndBoard ==
    /\ pc \in {"loop", "compare", "restore", "done"} => cards = ExpectedDeck
    /\ pc \in {"loop", "done"} => board = board_in

\* C8's case: the start of a second trial, after cards were drawn and removed
C8_Witness ==
    /\ pc = "loop"
    /\ trial = 1
    /\ num_trials = 2
    /\ Len(board_in) < 5

DuplicateInput == ~Distinct(h1 \o h2 \o board_in)

\* C9: with a card appearing more than once across hole1, hole2 and the
\* board, hand_vs_hand fails while the remaining deck is built, before any
\* trial samples a card, and returns no equity values.
C9_DuplicateFailsAtBuild ==
    DuplicateInput =>
        /\ pc \in {"start", "panicked"}
        /\ new_cards = <<>>
        /\ trial = 0
        /\ Counters = <<0, 0, 0>>
        /\ result = None

\* C9's case: a card repeated inside the board made the build fail
C9_Witness ==
    /\ pc = "panicked"
    /\ Distinct(h1 \o h2)
    /\ ~Distinct(board_in)

\* C10 as stated: a call with num_trials = 0 is rejected and returns no
\* equity pair.
C10_ZeroTrialsRejected ==
    num_trials = 0 => (pc # "done" /\ result = None)

(***************************************************************************)
(* hand_vs_hand with a board of more than 5 cards.  Line 35 computes       *)
(* `5 - board.len()` in usize: with overflow checks the subtraction        *)
(* panics, without them it wraps to a number larger than any deck, and     *)
(* choose_multiple then yields every card of the deck in a random order.   *)
(***************************************************************************)
LongBoards ==
    { <<Card(5, Diamonds), Card(6, Clubs), Card(7, Clubs), Card(9, Hearts),
        Card(2, Diamonds), Card(8, Hearts)>>,
      <<Card(12, Spades), Card(11, Spades), Card(10, Spades), Card(9, Spades),
        Card(8, Spades), Card(2, Clubs)>>,
      <<Card(5, Diamonds), Card(6, Clubs), Card(7, Clubs), Card(9, Hearts),
        Card(2, Diamonds), Card(8, Hearts), Card(3, Spades)>> }

ValidHoles == { <<AS, AC>>, <<KD, KH>> }

InitLong ==
    /\ pc = "start"
    /\ poker_hand = Unused /\ accepted = 0
    /\ h1 \in ValidHoles /\ h2 \in ValidHoles /\ h1 # h2
    /\ board_in \in LongBoards
    /\ num_trials \in 0..MaxTrials
    /\ cards = <<>> /\ board = <<>> /\ new_cards = <<>>
    /\ p1_wins = 0 /\ p2_wins = 0 /\ ties = 0 /\ trial = 0
    /\ ht1 = None /\ ht2 = None /\ ord = Unused /\ result = None
    /\ swapped = Unused

ReverseSeq(cs) == [i \in 1..Len(cs) |-> cs[Len(cs) + 1 - i]]

\* the orders in which choose_multiple is taken to yield a whole deck
WholeDeckDraws(deck) == {deck, ReverseSeq(deck)}

\* line 35 with board.len() > 5, then lines 36-38
SampleLong ==
    /\ pc = "loop" /\ trial < num_trials
    /\ Len(board) > 5
    /\ \/ /\ pc' = "panicked"
          /\ UNCHANGED <<new_cards, board>>
       \/ /\ \E d \in WholeDeckDraws(cards) :
                /\ new_cards' = d
                /\ board' = board \o d
          /\ pc' = "compare"
    /\ UNCHANGED <<poker_hand, accepted, h1, h2, board_in, num_trials, cards, p1_wins, p2_wins, ties,
                   trial, ht1, ht2, ord, result, swapped>>

NextLong == Build \/ SampleLong \/ Compare \/ Restore \/ Return

SpecLong == InitLong /\ [][NextLong]_vars

\* C11 as stated: a call with a board of more than 5 cards is rejected
\* before any card is sampled; no hand is classified and no equity returned.
C11_LongBoardRejected ==
    Len(board_in) > 5 =>
        /\ pc \in {"start", "loop", "panicked"}
        /\ new_cards = <<>>
        /\ ht1 = None /\ ht2 = None
        /\ result = None

(***************************************************************************)
(* Two calls side by side: hand_vs_hand(h1, h2, board, N) and              *)
(* hand_vs_hand(h2, h1, board, N) run with the same random seed.  The same *)
(* seed makes choose_multiple pick the same positions of a deck of the     *)
(* same length.  `swapped` holds the locals of the second call.            *)
(***************************************************************************)
SymBoards ==
    { <<Card(5, Diamonds), Card(6, Clubs), Card(7, Clubs)>>,
      <<Card(5, Diamonds), Card(6, Clubs), Card(7, Clubs), Card(9, Hearts)>>,
      <<Card(5, Diamonds), Card(6, Clubs), Card(7, Clubs), Card(9, Hearts),
        Card(2, Diamonds)>> }

InitSym ==
    /\ pc = "start"
    /\ poker_hand = Unused /\ accepted = 0
    /\ h1 \in ValidHoles /\ h2 \in ValidHoles /\ h1 # h2
    /\ board_in \in SymBoards
    /\ num_trials \in 1..MaxTrials
    /\ cards = <<>> /\ board = <<>> /\ new_cards = <<>>
    /\ p1_wins = 0 /\ p2_wins = 0 /\ ties = 0 /\ trial = 0
    /\ ht1 = None /\ ht2 = None /\ ord = Unused /\ result = None
    /\ swapped = [cards |-> <<>>, board |-> <<>>, new_cards |-> <<>>,
                  p1_wins |-> 0, p2_wins |-> 0, ties |-> 0, result |-> None]

\* the positions choose_multiple(&mut rng, k) can pick: k distinct positions
\* of the deck, in any order (those holding cards of the universe)
IndexDraws(deck, k) ==
    LET live == {i \in 1..Len(deck) : deck[i] \in Universe}
    IN {d \in [1..k -> live] : \A i, j \in 1..k : i # j => d[i] # d[j]}

\* lines 17-32 in both calls
BuildBoth ==
    /\ pc = "start"
    /\ LET d1 == RemainingDeck(h1, h2, board_in)
           d2 == RemainingDeck(h2, h1, board_in)
       IN IF IsPanic(d1) \/ IsPanic(d2)
          THEN pc' = "panicked" /\ UNCHANGED <<cards, board, swapped>>
          ELSE /\ pc' = "loop"
               /\ cards' = d1.vec /\ board' = board_in
               /\ swapped' = [swapped EXCEPT !.cards = d2.vec, !.board = board_in]
    /\ UNCHANGED <<poker_hand, accepted, h1, h2, board_in, num_trials, new_cards, p1_wins, p2_wins,
                   ties, trial, ht1, ht2, ord, result>>

\* lines 35-38 in both calls, the same positions drawn
SampleBoth ==
    /\ pc = "loop" /\ trial < num_trials
    /\ Len(board) <= 5 /\ Len(swapped.cards) = Len(cards)
    /\ \E idx \in IndexDraws(cards, 5 - Len(board)) :
          LET d1 == [i \in 1..Len(idx) |-> cards[idx[i]]]
              d2 == [i \in 1..Len(idx) |-> swapped.cards[idx[i]]]
          IN /\ new_cards' = d1
             /\ board' = board \o d1
             /\ swapped' = [swapped EXCEPT !.new_cards = d2,
                                           !.board = swapped.board \o d2]
    /\ pc' = "compare"
    /\ UNCHANGED <<poker_hand, accepted, h1, h2, board_in, num_trials, cards, p1_wins, p2_wins, ties,
                   trial, ht1, ht2, ord, result>>

\* lines 39-43 in both calls; the second call has h2 as its first hand
CompareBoth ==
    /\ pc = "compare"
    /\ ht1' = hand_type(h1, board)
    /\ ht2' = hand_type(h2, board)
    /\ LET s1 == hand_type(h2, swapped.board)
           s2 == hand_type(h1, swapped.board)
       IN IF IsPanic(ht1') \/ IsPanic(ht2') \/ IsPanic(s1) \/ IsPanic(s2)
          THEN pc' = "panicked" /\ UNCHANGED <<ord, p1_wins, p2_wins, ties, swapped>>
          ELSE /\ pc' = "restore"
               /\ ord' = HandTypeCmp(ht1', ht2')
               /\ p1_wins' = Tally(ord', p1_wins, p2_wins, ties)[1]
               /\ p2_wins' = Tally(ord', p1_wins, p2_wins, ties)[2]
               /\ ties' = Tally(ord', p1_wins, p2_wins, ties)[3]
               /\ LET t == Tally(HandTypeCmp(s1, s2), swapped.p1_wins,
                                 swapped.p2_wins, swapped.ties)
                  IN swapped' = [swapped EXCEPT !.p1_wins = t[1],
                                                !.p2_wins = t[2], !.ties = t[3]]
    /\ UNCHANGED <<poker_hand, accepted, h1, h2, board_in, num_trials, cards, board, new_cards, trial,
                   result>>

\* lines 44-47 in both calls
RestoreBoth ==
    /\ pc = "restore"
    /\ LET b1 == RestoreBoard(board, new_cards)
           b2 == RestoreBoard(swapped.board, swapped.new_cards)
       IN IF IsPanic(b1) \/ IsPanic(b2)
          THEN /\ pc' = "panicked"
               /\ UNCHANGED <<board, new_cards, trial, ht1, ht2, ord, swapped>>
          ELSE /\ pc' = "loop"
               /\ board' = b1.vec
               /\ new_cards' = <<>>
               /\ trial' = trial + 1
               /\ ht1' = None /\ ht2' = None /\ ord' = Unused
               /\ swapped' = [swapped EXCEPT !.board = b2.vec, !.new_cards = <<>>]
    /\ UNCHANGED <<poker_hand, accepted, h1, h2, board_in, num_trials, cards, p1_wins, p2_wins, ties,
                   result>>

\* lines 49-50 in both calls
ReturnBoth ==
    /\ pc = "loop" /\ ~(trial < num_trials)
    /\ result' = <<HandEquity(F32Div(p1_wins, num_trials), F32Div(ties, num_trials)),
                   HandEquity(F32Div(p2_wins, num_trials), F32Div(ties, num_trials))>>
    /\ swapped' = [swapped EXCEPT !.result =
          <<HandEquity(F32Div(swapped.p1_wins, num_trials),
                       F32Div(swapped.ties, num_trials)),
            HandEquity(F32Div(swapped.p2_wins, num_trials),
                       F32Div(swapped.ties, num_trials))>>]
    /\ pc' = "done"
    /\ UNCHANGED <<poker_hand, accepted, h1, h2, board_in, num_trials, cards, board, new_cards,
                   p1_wins, p2_wins, ties, trial, ht1, ht2, ord>>

NextSym == BuildBoth \/ SampleBoth \/ CompareBoth \/ RestoreBoth \/ ReturnBoth

SpecSym == InitSym /\ [][NextSym]_vars

\* C12: with the same sampled completions, hand_vs_hand(h1, h2, board, N)
\* and hand_vs_hand(h2, h1, board, N) report swapped pwin values and the
\* same pdraw, and within one call both players are given the same pdraw,
\* ties / N.
C12_EquitySymmetry ==
    /\ pc \in {"loop", "restore", "done"} =>
          /\ p1_wins = swapped.p2_wins
          /\ p2_wins = swapped.p1_wins
          /\ ties = swapped.ties
    /\ pc = "done" =>
          /\ result[1].pwin = swapped.result[2].pwin
          /\ result[2].pwin = swapped.result[1].pwin
          /\ result[1].pdraw = swapped.result[1].pdraw
          /\ result[1].pdraw = result[2].pdraw
          /\ swapped.result[1].pdraw = swapped.result[2].pdraw
          /\ result[1].pdraw = [num |-> ties, den |-> num_trials]

\* C12's case: two trials, one won by the first hand and one tied, so that
\* the two pwin values differ
C12_Witness ==
    /\ pc = "done"
    /\ num_trials = 2
    /\ p1_wins = 1 /\ p2_wins = 0 /\ ties = 1
    /\ swapped.p2_wins = 1

(***************************************************************************)
(* Detector runs: one detector of hand_type.rs is called on a list of      *)
(* cards as hand_type hands it over (seven dealt cards after the sort), or *)
(* on the cards of one suit of such a list, as get_straight_flush hands    *)
(* them to get_straight.                                                   *)
(***************************************************************************)
\* cards with runs of ranks and long suits, and how many of them are used
DetRunDeck ==
    <<Card(14, Clubs), Card(13, Spades), Card(12, Clubs), Card(11, Spades),
      Card(10, Diamonds), Card(9, Spades), Card(8, Hearts), Card(5, Clubs),
      Card(4, Clubs), Card(3, Clubs), Card(2, Clubs), Card(12, Spades),
      Card(10, Spades), Card(2, Diamonds), Card(6, Clubs), Card(7, Diamonds)>>

DetRunSize == 15

\* cards with repeated ranks, and how many of them are used
DetMultDeck ==
    <<Card(13, Spades), Card(13, Clubs), Card(13, Hearts), Card(13, Diamonds),
      Card(12, Spades), Card(12, Clubs), Card(12, Hearts), Card(11, Spades),
      Card(11, Clubs), Card(14, Diamonds), Card(9, Diamonds), Card(2, Hearts),
      Card(8, Clubs), Card(10, Hearts)>>

DetMultSize == 13

\* every 7 cards of the two decks, in deck order
DetDeals ==
    {PickAt(DetRunDeck, I, 1)
        : I \in {J \in SUBSET (1..DetRunSize) : Cardinality(J) = 7}}
    \cup
    {PickAt(DetMultDeck, I, 1)
        : I \in {J \in SUBSET (1..DetMultSize) : Cardinality(J) = 7}}

\* lists of more than seven cards with two long suits, as the detectors get
\* them when a board of more than 5 cards has been completed
DetLongLists ==
    { Cs(<< <<14, 1>>, <<13, 1>>, <<12, 1>>, <<11, 1>>, <<10, 1>>,
            <<6, 0>>, <<5, 0>>, <<4, 0>>, <<3, 0>>, <<2, 0>> >>),
      Cs(<< <<13, 0>>, <<11, 0>>, <<9, 0>>, <<12, 0>>, <<10, 0>>,
            <<14, 1>>, <<12, 1>>, <<5, 1>>, <<4, 1>>, <<3, 1>> >>),
      Cs(<< <<14, 3>>, <<13, 3>>, <<12, 3>>, <<11, 3>>, <<9, 3>>,
            <<8, 2>>, <<6, 2>>, <<5, 2>>, <<3, 2>>, <<2, 2>> >>) }

\* the lists the detectors are called on
DetInputs ==
    {sort_by_desc(d) : d \in DetDeals \cup DetLongLists}
    \cup {group_by_suit(sort_by_desc(d))[s] : d \in DetDeals, s \in 0..3}

InitDet ==
    /\ pc = "given"
    /\ poker_hand = Unused /\ accepted = 0
    /\ cards \in DetInputs
    /\ ht1 = None
    /\ h1 = Unused /\ h2 = Unused /\ board_in = Unused /\ num_trials = 0
    /\ board = Unused /\ new_cards = Unused
    /\ p1_wins = 0 /\ p2_wins = 0 /\ ties = 0 /\ trial = 0
    /\ ht2 = None /\ ord = Unused /\ result = None /\ swapped = Unused

\* what a detector call leaves alone
DetFrame ==
    UNCHANGED <<poker_hand, accepted, h1, h2, board_in, num_trials, cards, board, new_cards, p1_wins,
                p2_wins, ties, trial, ht2, ord, result, swapped>>

CallGetStraight ==
    /\ pc = "given"
    /\ ht1' = get_straight(cards)
    /\ pc' = "get_straight"
    /\ DetFrame

CallGetStraightFlush ==
    /\ pc = "given"
    /\ ht1' = get_straight_flush(cards)
    /\ pc' = "get_straight_flush"
    /\ DetFrame

CallGetFlush ==
    /\ pc = "given"
    /\ ht1' = get_flush(cards)
    /\ pc' = "get_flush"
    /\ DetFrame

CallGetQuads ==
    /\ pc = "given"
    /\ ht1' = get_quads(cards)
    /\ pc' = "get_quads"
    /\ DetFrame

CallGetFullHouse ==
    /\ pc = "given"
    /\ ht1' = get_full_house(cards)
    /\ pc' = "get_full_house"
    /\ DetFrame

CallGetTripsOrPairs ==
    /\ pc = "given"
    /\ ht1' = get_trips_or_pairs(cards)
    /\ pc' = "get_trips_or_pairs"
    /\ DetFrame

NextDet ==
    \/ CallGetStraight
    \/ CallGetStraightFlush
    \/ CallGetFlush
    \/ CallGetQuads
    \/ CallGetFullHouse
    \/ CallGetTripsOrPairs

SpecDet == InitDet /\ [][NextDet]_vars

(***************************************************************************)
(* Claims about the detectors (checked under SpecDet).  What a detector    *)
(* should return is stated from the ranks and suits of the cards alone.    *)
(***************************************************************************)
RankSet(cs) == {cs[i].rank : i \in 1..Len(cs)}

\* how many cards of cs have rank r
CountRank(cs, r) == Cardinality({i \in 1..Len(cs) : cs[i].rank = r})

\* the first card of cs with rank r
FirstOfRank(cs, r) ==
    cs[CHOOSE i \in 1..Len(cs) :
          cs[i].rank = r /\ \A j \in 1..(i - 1) : cs[j].rank # r]

\* the ranks of the straight topped by t, highest first; the Five-high one
\* ends with the Ace
RunRanks(t) ==
    IF t = 5 THEN <<5, 4, 3, 2, 14>> ELSE [i \in 1..5 |-> t + 1 - i]

HasRun(cs, t) == \A i \in 1..5 : RunRanks(t)[i] \in RankSet(cs)

\* the tops of the straights the cards hold
RunTops(cs) == {t \in 5..14 : HasRun(cs, t)}

MaxOf(S) == CHOOSE x \in S : \A y \in S : y <= x

\* a Straight value of top t whose i-th card has suit (s + i) % 4
StraightOf(t, s) ==
    HandType("Straight", << [i \in 1..5 |-> Card(RunRanks(t)[i], (s + i) % 4)] >>)

\* the cards are the wheel's case: Ace on top, 5-4-3-2 present, and no five
\* consecutive ranks without the ace-low rule
WheelCase(cs) ==
    /\ Len(cs) >= 5
    /\ cs[1].rank = Ace
    /\ {5, 4, 3, 2} \subseteq RankSet(cs)
    /\ RunTops(cs) \cap (6..14) = {}

\* C13: for rank-descending cards topped by an Ace that hold 5, 4, 3, 2 and
\* no five consecutive ranks, get_straight returns Straight [5, 4, 3, 2, Ace];
\* that value is Equal to every wheel and Less than every straight topped
\* by Six or higher, the Ace-high one included.
C13_WheelIsFiveHigh ==
    (pc = "get_straight" /\ WheelCase(cards)) =>
        /\ ht1.tag = "Straight"
        /\ PayloadRanks(ht1) = <<5, 4, 3, 2, 14>>
        /\ Payload(ht1) = <<FirstOfRank(cards, 5), FirstOfRank(cards, 4),
                            FirstOfRank(cards, 3), FirstOfRank(cards, 2), cards[1]>>
        /\ \A s \in 0..3 :
              /\ HandTypeCmp(ht1, StraightOf(5, s)) = Equal
              /\ \A t \in 6..14 :
                    /\ HandTypeCmp(ht1, StraightOf(t, s)) = Less
                    /\ HandTypeCmp(StraightOf(t, s), ht1) = Greater

\* C13's case: a wheel of mixed suits among seven cards was found
C13_Witness ==
    /\ pc = "get_straight"
    /\ Len(cards) = 7
    /\ WheelCase(cards)
    /\ Card(2, Diamonds) \in CardSet(cards)
    /\ ht1.tag = "Straight"

\* the Straight the cards hold: the highest top, the first card of each of
\* its ranks
BestStraight(cs) ==
    LET t == MaxOf(RunTops(cs))
    IN HandType("Straight", << [i \in 1..5 |-> FirstOfRank(cs, RunRanks(t)[i])] >>)

\* C16: get_straight on rank-descending cards returns a match exactly when
\* the cards hold five consecutive ranks (or the wheel); repeated ranks
\* neither break nor lengthen a run; the match is the highest-topped run in
\* descending order; fewer than 5 cards give no match, never an error.
C16_HighestStraight ==
    pc = "get_straight" =>
        /\ ~IsPanic(ht1)
        /\ Len(cards) < 5 => ht1 = None
        /\ RunTops(cards) = {} => ht1 = None
        /\ RunTops(cards) # {} => ht1 = BestStraight(cards)

\* C16's case: seven cards with a repeated rank inside a run of six ranks
C16_Witness ==
    /\ pc = "get_straight"
    /\ Len(cards) = 7
    /\ RunTops(cards) = {13, 14}
    /\ CountRank(cards, 12) = 2
    /\ PayloadRanks(ht1) = <<14, 13, 12, 11, 10>>

\* the tops of the straights made only of cards of suit s
SuitRunTops(cs, s) ==
    {t \in 5..14 : \A i \in 1..5 : Card(RunRanks(t)[i], s) \in CardSet(cs)}

\* how many cards of cs have suit s
CountSuit(cs, s) == Cardinality({i \in 1..Len(cs) : cs[i].suit = s})

\* the StraightFlush the cards hold: the first suit (Spades, Clubs, Hearts,
\* Diamonds) with a straight of its own, the highest top in it
BestStraightFlush(cs) ==
    LET S == {s \in 0..3 : SuitRunTops(cs, s) # {}}
        s0 == CHOOSE s \in S : \A x \in S : s <= x
        t == MaxOf(SuitRunTops(cs, s0))
    IN HandType("StraightFlush", << [i \in 1..5 |-> Card(RunRanks(t)[i], s0)] >>)

\* C14: get_straight_flush returns StraightFlush exactly when one suit holds
\* a straight (or the wheel) of its own cards, and then the highest such
\* straight; a straight and a flush that do not coincide in one suit give no
\* match, and seven cards with a mixed-suit ace-high straight (and no
\* flush) are then classified as Straight topped by the Ace.
C14_StraightFlushInOneSuit ==
    pc = "get_straight_flush" =>
        /\ (\A s \in 0..3 : SuitRunTops(cards, s) = {}) => ht1 = None
        /\ (\E s \in 0..3 : SuitRunTops(cards, s) # {}) =>
              ht1 = BestStraightFlush(cards)
        /\ (Len(cards) = 7 /\ ht1 = None) => Cascade(cards).tag # "StraightFlush"
        /\ (/\ Len(cards) = 7 /\ ht1 = None /\ HasRun(cards, 14)
            /\ \A s \in 0..3 : CountSuit(cards, s) < 5) =>
              /\ Cascade(cards).tag = "Straight"
              /\ PayloadRanks(Cascade(cards)) = <<14, 13, 12, 11, 10>>

\* C14's case: the seven cards hold an ace-high straight of mixed suits and
\* a king-high straight all in Spades; the latter is returned
C14_Witness ==
    /\ pc = "get_straight_flush"
    /\ Len(cards) = 7
    /\ HasRun(cards, 14)
    /\ ht1.tag = "StraightFlush"
    /\ PayloadRanks(ht1) = <<13, 12, 11, 10, 9>>

\* the ranks held exactly n times
RanksHeld(cs, n) == {r \in 2..14 : CountRank(cs, r) = n}

\* the cards of rank r, in the order of cs
CardsOfRank(cs, r) == SelectSeq(cs, LAMBDA c : c.rank = r)

\* C15: get_full_house returns FullHouse exactly when a rank is held 3
\* times and also a rank is held 2 times or a second rank 3 times; the
\* trips slot holds the three cards of the highest rank held 3 times, the
\* pair slot the highest pair if a rank is held exactly twice, otherwise
\* two cards of the lower of the two trips ranks.
C15_FullHouse ==
    pc = "get_full_house" =>
        LET T == RanksHeld(cards, 3)
            P == RanksHeld(cards, 2)
            match == T # {} /\ (P # {} \/ Cardinality(T) >= 2)
        IN /\ ~match => ht1 = None
           /\ match =>
                /\ ht1.tag = "FullHouse"
                /\ Len(ht1.fields) = 2
                /\ ht1.fields[1] = CardsOfRank(cards, MaxOf(T))
                /\ P # {} => ht1.fields[2] = CardsOfRank(cards, MaxOf(P))
                /\ P = {} =>
                      /\ Len(ht1.fields[2]) = 2
                      /\ ht1.fields[2][1] # ht1.fields[2][2]
                      /\ CardSet(ht1.fields[2])
                            \subseteq CardSet(CardsOfRank(cards, MaxOf(T \ {MaxOf(T)})))

\* C15's case: two ranks held three times each
C15_Witness ==
    /\ pc = "get_full_house"
    /\ RanksHeld(cards, 3) = {13, 12}
    /\ RanksHeld(cards, 2) = {}
    /\ ht1.tag = "FullHouse"
    /\ PayloadRanks(ht1) = <<13, 13, 13, 12, 12>>

\* C17: get_flush returns Flush exactly when some suit has at least 5
\* cards; its payload is the 5 highest-ranked cards of that suit in
\* descending order (cards of other suits and the 6th and 7th card of the
\* suit are left out); the suits are tried in the order Spades, Clubs,
\* Hearts, Diamonds.
C17_FlushTopFive ==
    pc = "get_flush" =>
        LET S == {s \in 0..3 : CountSuit(cards, s) >= 5}
        IN /\ S = {} => ht1 = None
           /\ S # {} =>
                LET s0 == CHOOSE s \in S : \A x \in S : s <= x
                    p == Payload(ht1)
                IN /\ ht1.tag = "Flush"
                   /\ Len(ht1.fields) = 1
                   /\ Len(p) = 5
                   /\ CardSet(p) \subseteq CardSet(cards)
                   /\ \A i \in 1..5 : p[i].suit = s0
                   /\ \A i \in 1..4 : p[i].rank > p[i + 1].rank
                   /\ \A c \in CardSet(cards) \ CardSet(p) :
                         c.suit = s0 => c.rank < p[5].rank

\* C17's case: six Clubs under a King of Spades; the King and the lowest
\* Club are left out
C17_Witness ==
    /\ pc = "get_flush"
    /\ Len(cards) = 7
    /\ cards[1] = Card(13, Spades)
    /\ CountSuit(cards, Clubs) = 6
    /\ ht1.tag = "Flush"
    /\ PayloadRanks(ht1) = <<12, 6, 5, 4, 3>>

\* c is a highest-ranked card of cs among the cards whose rank is not in rs
HighestOutside(cs, rs, c) ==
    /\ c \in CardSet(cs)
    /\ c.rank \notin rs
    /\ \A x \in CardSet(cs) : x.rank \notin rs => x.rank <= c.rank

\* C18: get_quads returns Quads exactly when some rank is held 4 times (and
\* a card of another rank exists); the payload is the 4 cards of that rank
\* and, as kicker, the highest-ranked card of any other rank.
C18_QuadsAndKicker ==
    pc = "get_quads" =>
        LET Q == RanksHeld(cards, 4)
            match == Q # {} /\ RankSet(cards) \ {MaxOf(Q)} # {}
        IN /\ ~match => ht1 = None
           /\ match =>
                /\ ht1.tag = "Quads"
                /\ Len(ht1.fields) = 2
                /\ ht1.fields[1] = CardsOfRank(cards, MaxOf(Q))
                /\ Len(ht1.fields[2]) = 1
                /\ HighestOutside(cards, {MaxOf(Q)}, ht1.fields[2][1])

\* C18's case: four Kings with an Ace above them and lower cards below
C18_Witness ==
    /\ pc = "get_quads"
    /\ Len(cards) = 7
    /\ cards[1].rank = 14
    /\ ht1.tag = "Quads"
    /\ PayloadRanks(ht1) = <<13, 13, 13, 13, 14>>

\* ks are the n highest-ranked cards of cs among those whose rank is not in
\* rs, in descending order
TopKickers(cs, rs, ks, n) ==
    /\ Len(ks) = n
    /\ \A i, j \in 1..n : i # j => ks[i] # ks[j]
    /\ \A i \in 1..n : ks[i] \in CardSet(cs) /\ ks[i].rank \notin rs
    /\ \A i \in 1..(n - 1) : ks[i].rank >= ks[i + 1].rank
    /\ \A x \in CardSet(cs) \ CardSet(ks) : x.rank \notin rs => x.rank <= ks[n].rank

\* C19: with no rank held 3 times and at least two ranks held exactly
\* twice, get_trips_or_pairs returns TwoPair: the highest pair, the second
\* highest pair, and as kicker the highest-ranked card of any other rank;
\* with a third pair that outranks every unpaired card the kicker is a card
\* of the third pair.
C19_TwoHighestPairs ==
    (/\ pc = "get_trips_or_pairs"
     /\ RanksHeld(cards, 3) = {}
     /\ Cardinality(RanksHeld(cards, 2)) >= 2) =>
        LET P == RanksHeld(cards, 2)
            p1 == MaxOf(P)
            p2 == MaxOf(P \ {p1})
            third == P \ {p1, p2}
        IN /\ ht1.tag = "TwoPair"
           /\ Len(ht1.fields) = 3
           /\ ht1.fields[1] = CardsOfRank(cards, p1)
           /\ ht1.fields[2] = CardsOfRank(cards, p2)
           /\ Len(ht1.fields[3]) = 1
           /\ HighestOutside(cards, {p1, p2}, ht1.fields[3][1])
           /\ (/\ third # {}
               /\ \A r \in RanksHeld(cards, 1) : r < MaxOf(third)) =>
                 ht1.fields[3][1].rank = MaxOf(third)

\* C19's case: three pairs and a lower single card; the kicker is a Jack of
\* the third pair
C19_Witness ==
    /\ pc = "get_trips_or_pairs"
    /\ RanksHeld(cards, 2) = {13, 12, 11}
    /\ RanksHeld(cards, 1) = {9}
    /\ ht1.tag = "TwoPair"
    /\ PayloadRanks(ht1) = <<13, 13, 12, 12, 11>>

\* C20: get_trips_or_pairs returns Trips when a rank is held 3 times, with
\* the 2 highest-ranked cards of other ranks as kickers in descending
\* order; Pair when no rank is held 3 times and exactly one rank twice, with
\* the 3 highest-ranked cards of other ranks as kickers in descending
\* order; and no match when no rank is held 2 or 3 times.
C20_TripsPairOrNone ==
    pc = "get_trips_or_pairs" =>
        LET T == RanksHeld(cards, 3)
            P == RanksHeld(cards, 2)
        IN /\ T # {} =>
                /\ ht1.tag = "Trips"
                /\ Len(ht1.fields) = 2
                /\ ht1.fields[1] = CardsOfRank(cards, MaxOf(T))
                /\ TopKickers(cards, {MaxOf(T)}, ht1.fields[2], 2)
           /\ (T = {} /\ Cardinality(P) = 1) =>
                /\ ht1.tag = "Pair"
                /\ Len(ht1.fields) = 2
                /\ ht1.fields[1] = CardsOfRank(cards, MaxOf(P))
                /\ TopKickers(cards, {MaxOf(P)}, ht1.fields[2], 3)
           /\ (T = {} /\ P = {}) => ht1 = None

\* C20's case: three Queens under an Ace and a King, which are the kickers
C20_Witness ==
    /\ pc = "get_trips_or_pairs"
    /\ Len(cards) = 7
    /\ RanksHeld(cards, 3) = {12}
    /\ ht1.tag = "Trips"
    /\ PayloadRanks(ht1) = <<12, 12, 12, 14, 13>>

(***************************************************************************)
(* group_by_rank_freq called on its own (it is pub): the caller passes any *)
(* list of cards, in any order, and may pass a card more than once.        *)
(***************************************************************************)
\* the cards the lists are made of
GrpPool ==
    <<Card(14, Hearts), Card(13, Spades), Card(13, Clubs), Card(13, Hearts),
      Card(13, Diamonds), Card(12, Spades)>>

\* the longest list passed
GrpMaxLen == 5

GrpInputs ==
    UNION {[1..n -> {GrpPool[i] : i \in 1..Len(GrpPool)}] : n \in 0..GrpMaxLen}

InitGrp ==
    /\ pc = "given"
    /\ poker_hand = Unused /\ accepted = 0
    /\ cards \in GrpInputs
    /\ result = None
    /\ ht1 = None
    /\ h1 = Unused /\ h2 = Unused /\ board_in = Unused /\ num_trials = 0
    /\ board = Unused /\ new_cards = Unused
    /\ p1_wins = 0 /\ p2_wins = 0 /\ ties = 0 /\ trial = 0
    /\ ht2 = None /\ ord = Unused /\ swapped = Unused

\* one call of group_by_rank_freq(&cards)
CallGroupByRankFreq ==
    /\ pc = "given"
    /\ result' = group_by_rank_freq(cards)
    /\ pc' = IF IsPanic(result') THEN "panicked" ELSE "group_by_rank_freq"
    /\ UNCHANGED <<poker_hand, accepted, h1, h2, board_in, num_trials, cards, board, new_cards,
                   p1_wins, p2_wins, ties, trial, ht1, ht2, ord, swapped>>

NextGrp == CallGroupByRankFreq

SpecGrp == InitGrp /\ [][NextGrp]_vars

\* the groups of the buckets 1..4, as (bucket, position) pairs
GroupsOf(g) == {fk \in (1..4) \X (1..15) : fk[2] <= Len(g[fk[1]])}

\* C21: for every rank present the complete list of the cards of that rank
\* is one group of the bucket indexed by their number; every group of
\* bucket f in 1..4 has f cards of one rank; every input card is in exactly
\* one group; the groups of a bucket run from the highest rank to the
\* lowest.
C21_GroupsByFrequency ==
    pc = "group_by_rank_freq" =>
        LET g == result.arr IN
        /\ \A fk \in GroupsOf(g) :
              LET grp == g[fk[1]][fk[2]] IN
              /\ Len(grp) = fk[1]
              /\ \A i \in 1..Len(grp) : grp[i].rank = grp[1].rank
              /\ grp = CardsOfRank(cards, grp[1].rank)
        /\ \A r \in RankSet(cards) :
              /\ \E k \in 1..Len(g[CountRank(cards, r)]) :
                    g[CountRank(cards, r)][k] = CardsOfRank(cards, r)
              /\ Cardinality({fk \in GroupsOf(g) :
                                 g[fk[1]][fk[2]][1].rank = r}) = 1
        /\ \A fk \in GroupsOf(g) : g[fk[1]][fk[2]][1].rank \in RankSet(cards)
        /\ \A f \in 1..4 : \A k \in 1..(Len(g[f]) - 1) :
              g[f][k][1].rank > g[f][k + 1][1].rank

\* C21's case: an unsorted list with a pair and two single cards
C21_Witness ==
    /\ pc = "group_by_rank_freq"
    /\ cards = <<Card(12, Spades), Card(13, Hearts), Card(14, Hearts),
                 Card(13, Spades)>>
    /\ result.arr[1] = << <<Card(14, Hearts)>>, <<Card(12, Spades)>> >>
    /\ result.arr[2] = << <<Card(13, Hearts), Card(13, Spades)>> >>
    /\ result.arr[3] = <<>> /\ result.arr[4] = <<>>

\* C23: the call fails (the assertion panics and nothing is returned)
\* exactly when some rank occurs more than 4 times in its input.
C23_FailsOnlyAboveFour ==
    pc # "given" =>
        /\ (pc = "panicked") <=> (\E r \in RankSet(cards) : CountRank(cards, r) > 4)
        /\ pc = "panicked" => result = Panic
        /\ pc # "panicked" => pc = "group_by_rank_freq" /\ result.tag = "Ok"

\* C23's case: five Kings, one of them passed twice
C23_Witness ==
    /\ pc = "panicked"
    /\ CountRank(cards, 13) = 5
    /\ result = Panic

(***************************************************************************)
(* Claims about the payload of hand_type's result (checked under SpecHT)   *)
(***************************************************************************)
\* C24: for 7 distinct input cards the payload of the HandType returned by
\* hand_type is exactly 5 cards, pairwise distinct, each one of the 7 input
\* cards.
C24_PayloadFiveOfTheSeven ==
    (pc # "dealt" /\ Distinct(Dealt) /\ Len(Dealt) = 7) =>
        /\ pc = "classified"
        /\ Len(Payload(ht1)) = 5
        /\ Cardinality(CardSet(Payload(ht1))) = 5
        /\ CardSet(Payload(ht1)) \subseteq CardSet(Dealt)

\* C24's case: two ranks held three times; the full house takes the three
\* Threes and two of the three Twos
C24_Witness ==
    /\ pc = "classified"
    /\ Distinct(Dealt)
    /\ CountRank(Dealt, 3) = 3 /\ CountRank(Dealt, 2) = 3
    /\ ht1.tag = "FullHouse"
    /\ PayloadRanks(ht1) = <<3, 3, 3, 2, 2>>
    /\ Cardinality(CardSet(Payload(ht1))) = 5

\* values an opponent's hand may have: a wheel, a pair of Aces, Threes full
\* of Twos
Opponents ==
    {HandType("Straight", <<Cs(<< <<5, 3>>, <<4, 2>>, <<3, 3>>, <<2, 1>>, <<14, 3>> >>)>>),
     HandType("Pair", <<Cs(<< <<14, 2>>, <<14, 3>> >>),
                        Cs(<< <<13, 0>>, <<9, 1>>, <<7, 0>> >>)>>),
     HandType("FullHouse", <<Cs(<< <<3, 1>>, <<3, 2>>, <<3, 3>> >>),
                             Cs(<< <<2, 1>>, <<2, 3>> >>)>>)}

\* C25: for 7 distinct cards, the HandType returned for any order or
\* hole/board assignment compares Equal (HandType's cmp) to the one
\* returned for the same cards in the fixed order, also where the payload
\* cards differ in suit; so it compares to an opponent's HandType the same
\* way, and a trial's win/tie/loss does not depend on the order of dealing.
C25_EqualUnderCmpInEveryOrder ==
    (pc # "dealt" /\ Distinct(Dealt)) =>
        LET canon == CanonResult IN
        /\ pc = "classified"
        /\ HandTypeCmp(ht1, canon) = Equal
        /\ HandTypeCmp(canon, ht1) = Equal
        /\ \A z \in Opponents :
              /\ HandTypeCmp(ht1, z) = HandTypeCmp(canon, z)
              /\ HandTypeCmp(z, ht1) = HandTypeCmp(z, canon)

\* C25's case: two Aces over 5 4 3 2 dealt in an order that puts the other
\* Ace into the wheel; the two values differ and compare Equal
C25_Witness ==
    /\ pc = "classified"
    /\ ht1.tag = "Straight"
    /\ PayloadRanks(ht1) = <<5, 4, 3, 2, 14>>
    /\ Payload(ht1)[5] # Payload(CanonResult)[5]
    /\ HandTypeCmp(ht1, CanonResult) = Equal

(***************************************************************************)
(* hand_vs_hand run to its end: the function is sequential code with no    *)
(* I/O and nothing to wait for, so a step that can be taken is taken.      *)
(***************************************************************************)
InitLive ==
    /\ pc = "start"
    /\ poker_hand = Unused /\ accepted = 0
    /\ h1 \in ValidHoles /\ h2 \in ValidHoles
    /\ board_in \in Boards
    /\ num_trials \in 0..MaxTrials
    /\ cards = <<>> /\ board = <<>> /\ new_cards = <<>>
    /\ p1_wins = 0 /\ p2_wins = 0 /\ ties = 0 /\ trial = 0
    /\ ht1 = None /\ ht2 = None /\ ord = Unused /\ result = None
    /\ swapped = Unused

\* the call has neither returned nor panicked
Running == pc \in {"start", "loop", "compare", "restore"}

\* the statement the call is at is executed; every step of Next is one, as
\* each moves pc
Step == Running /\ pc' \in {"loop", "compare", "restore", "done", "panicked"} \ {pc}

\* the thread is not suspended for ever: while the call is running its
\* next statement is executed
SpecLive == InitLive /\ [][Next]_vars /\ WF_pc(Step)

\* the arguments are valid: the hole cards and the board are pairwise
\* distinct cards, the board has at most 5, and there is a trial to run
ValidCall ==
    /\ Distinct(h1 \o h2 \o board_in)
    /\ Len(board_in) <= 5
    /\ num_trials >= 1

\* the draw of a trial has the cards it asks for
CanSample == Len(board) <= 5 /\ Draws(cards, 5 - Len(board)) # {}

\* the call has returned after num_trials trials, each counted once
Completed ==
    /\ pc = "done"
    /\ trial = num_trials
    /\ p1_wins + p2_wins + ties = num_trials
    /\ result # None /\ Len(result) = 2

\* C22: with valid arguments hand_vs_hand runs to completion: no step of a
\* trial fails, exactly num_trials trials are performed, and then one pair
\* of equities is returned.
C22_RunsToCompletion ==
    /\ [](ValidCall => pc # "panicked")
    /\ [](ValidCall => trial <= num_trials)
    /\ []((ValidCall /\ pc = "loop" /\ trial < num_trials) => CanSample)
    /\ (pc = "start" /\ ValidCall) ~> Completed

\* C22's case: two trials on an empty board, run to the return
C22_Witness ==
    /\ ValidCall
    /\ board_in = <<>>
    /\ num_trials = 2
    /\ Completed

(***************************************************************************)
(* poker.rs: the betting Hand.  Of struct Hand the model keeps the fields  *)
(* that process_action and the methods it calls read or write.  bet, call  *)
(* and fold are `panic!("todo")`; raise changes nothing and has no value   *)
(* on the path where none of its three tests fails.                        *)
(***************************************************************************)
\* struct Player: the fields the methods read
Player(stack, bet) == [stack |-> stack, live |-> TRUE, bet |-> bet]

\* enum Action
Check == [tag |-> "Check"]
Call == [tag |-> "Call"]
Bet(amt) == [tag |-> "Bet", amt |-> amt]
Raise(amt) == [tag |-> "Raise", amt |-> amt]
Fold == [tag |-> "Fold"]

\* Result<()>
OkUnit == [tag |-> "Ok"]
Err(msg) == [tag |-> "Err", msg |-> msg]

\* what a method leaves behind: the Hand after it and the value returned
Returned(self, res) == [tag |-> "Returned", hand |-> self, res |-> res]

\* self.players.get(self.current_action).unwrap(): indices start at 0
get_current_player(self) ==
    IF self.current_action < Len(self.players)
    THEN self.players[self.current_action + 1]
    ELSE Panic

check(self) ==
    LET current_player == get_current_player(self)
    IN IF current_player = Panic THEN Panic
       ELSE IF current_player.bet # self.current_bet
       THEN Returned(self, Err("Cannot perform Check action: current player must call, raise, or fold"))
       ELSE Returned([self EXCEPT !.current_action =
                         (self.current_action + 1) % Len(self.players)],
                     OkUnit)

\* the value written for the path past the three tests is that of an `if`
\* without `else`
raise(self, amount) ==
    LET current_player == get_current_player(self)
    IN IF current_player = Panic THEN Panic
       ELSE IF amount = 0
       THEN Returned(self, Err("Must bet positive amount"))
       ELSE IF amount < self.current_bet + self.min_bet
       THEN Returned(self, Err("Must bet at least minimum bet"))
       ELSE IF amount > current_player.stack
       THEN Returned(self, Err("Player cannot bet current stack"))
       ELSE Returned(self, [tag |-> "NoValue"])

\* panic!("todo"): the panic names the place it was raised at
bet(self, amount) == [tag |-> "Panic", at |-> "bet"]

call(self) == [tag |-> "Panic", at |-> "call"]

fold(self) == [tag |-> "Panic", at |-> "fold"]

process_action(self, action) ==
    IF self.bets_since_last_bet >= Len(self.players)
    THEN Returned(self, Err("No more actions available on the current street"))
    ELSE CASE action.tag = "Raise" -> raise(self, action.amt)
           [] action.tag = "Bet" -> bet(self, action.amt)
           [] action.tag = "Check" -> check(self)
           [] action.tag = "Call" -> call(self)
           [] action.tag = "Fold" -> fold(self)

\* how many players sit at the table, how large a bet or raise is tried,
\* how far the bet of a street has got at its start, how many actions a
\* run processes
MaxPlayers == 3
MaxAmount == 3
MaxBet == 1
MaxActions == 5

\* stack and minimum bet of the runs
StartStack == 2
StartMinBet == 1

\* a Hand at the start of a street: bets_since_last_bet is 0, every player
\* has put in at most the current bet
StreetStarts ==
    {[players |-> ps, current_action |-> ca, current_bet |-> cb,
      min_bet |-> StartMinBet, bets_since_last_bet |-> 0]
        : <<ps, ca, cb>> \in
            {t \in (UNION {[1..n -> {Player(StartStack, b) : b \in 0..MaxBet}]
                              : n \in 2..MaxPlayers})
                   \X (0..(MaxPlayers - 1)) \X (0..MaxBet)
               : /\ t[2] < Len(t[1])
                 /\ \A i \in 1..Len(t[1]) : t[1][i].bet <= t[3]}}

InitHand ==
    /\ pc = "street"
    /\ poker_hand \in StreetStarts
    /\ accepted = 0
    /\ result = None
    /\ h1 = Unused /\ h2 = Unused /\ board_in = Unused /\ num_trials = 0
    /\ cards = Unused /\ board = Unused /\ new_cards = Unused
    /\ p1_wins = 0 /\ p2_wins = 0 /\ ties = 0 /\ trial = 0
    /\ ht1 = None /\ ht2 = None /\ ord = Unused /\ swapped = Unused

\* one call hand.process_action(action); `accepted` counts the non-betting
\* actions accepted in a row since the street began
ProcessAction(action) ==
    /\ accepted < MaxActions
    /\ LET out == process_action(poker_hand, action)
       IN IF IsPanic(out)
          THEN pc' = "panicked" /\ result' = out
               /\ UNCHANGED <<poker_hand, accepted>>
          ELSE /\ pc' = "street"
               /\ poker_hand' = out.hand
               /\ result' = out.res
               /\ accepted' =
                    IF out.res # OkUnit THEN accepted
                    ELSE IF action.tag \in {"Bet", "Raise"} THEN 0
                    ELSE accepted + 1
    /\ UNCHANGED <<h1, h2, board_in, num_trials, cards, board, new_cards,
                   p1_wins, p2_wins, ties, trial, ht1, ht2, ord, swapped>>

ProcessCheck ==
    /\ pc = "street"
    /\ ProcessAction(Check)

ProcessCall ==
    /\ pc = "street"
    /\ ProcessAction(Call)

ProcessBet ==
    /\ pc = "street"
    /\ \E amt \in 0..MaxAmount : ProcessAction(Bet(amt))

ProcessRaise ==
    /\ pc = "street"
    /\ \E amt \in 0..MaxAmount : ProcessAction(Raise(amt))

ProcessFold ==
    /\ pc = "street"
    /\ ProcessAction(Fold)

NextHand ==
    \/ ProcessCheck
    \/ ProcessCall
    \/ ProcessBet
    \/ ProcessRaise
    \/ ProcessFold

SpecHand == InitHand /\ [][NextHand]_vars

\* C26: bets_since_last_bet counts the non-betting actions accepted since
\* the street began (0 at its start, one more for every accepted Check),
\* so process_action accepts at most players.len() of them in a row.
C26_StreetCloses ==
    pc = "street" =>
        /\ poker_hand.bets_since_last_bet = accepted
        /\ accepted <= Len(poker_hand.players)

====
